---- MODULE Spec2Model ----
(***************************************************************************)
(* Consequence Ledger: the hash-chained event store (ledger_events), its   *)
(* verifier, the anchor files and the daily publish protocol, together     *)
(* with the domain writers that share the database and the anchor files.   *)
(*                                                                         *)
(* Text is modelled as TLC strings where it is only concatenated and       *)
(* compared (hash material, hashes), and as sequences of tokens where the  *)
(* code parses it (the anchor file).  sha256 is modelled as an injective   *)
(* symbolic digest of its input string.  created_at is a number standing   *)
(* for a fixed-width ISO-8601 timestamp, whose text order is its time      *)
(* order.                                                                  *)
(***************************************************************************)
EXTENDS Integers, Sequences, FiniteSets, TLC

\* ---------------------------------------------------------------- bounds

\* Largest number of rows of ledger_events.
MaxEvents == 3
\* Largest timestamp (clock value, and caller-supplied created_at).
MaxTime == 3
\* Largest clock value of the running system.
MaxClock == 2
\* Largest number of remember() calls.
MaxRemember == 2
\* Largest number of daily_publish runs.
MaxPublish == 1
\* Largest number of rows of table memories in the domain-writer runs.
MaxMemories == 3
\* Largest number of daily_publish runs on a store no one else writes to.
MaxRepublish == 2
\* Largest number of tokens of a free-text note.
MaxNote == 3
\* Largest number of tokens of an anchor file found on disk.
MaxFile == 3
\* Largest number of events appended before the publish runs that are bound to end.
MaxLiveEvents == 2

VARIABLES
    ledger_events,   \* rows of table ledger_events, in rowid (insertion) order
    uuid_ctr,        \* number of identifiers new_uuid() has handed out
    ret,             \* what the last append_event call returned
    tamper,          \* the out-of-band change made to the stored rows, if any
    verify_result,   \* outcome of the last verify-chain command, if still current
    now,             \* the wall clock, in seconds
    memories_table,  \* whether table memories exists
    memories,        \* rows of table memories, in insertion order
    anchor_file,     \* ANCHOR.txt: whether it exists, and its text
    anchor_history,  \* the text of ANCHOR_HISTORY.log (empty when absent)
    rem,             \* per writer process: where its remember() or append_event() call stands
    dp,              \* where the daily_publish run stands, and its local variables
    dp_runs,         \* number of daily_publish runs started
    outbox,          \* the mails the SMTP server accepted
    fin,             \* where the finalize.py run stands, and its local variables
    last_cmd,        \* the last review/respond/finalize command and how it ended
    mirror           \* rows of ledger_events of a second, independent database

chain_vars == <<ledger_events, uuid_ctr, ret, tamper, verify_result>>
file_vars == <<anchor_file, anchor_history>>
dom_vars == <<fin, last_cmd, mirror>>
sys_vars == <<now, memories_table, memories, anchor_file, anchor_history, rem, dp,
              dp_runs, outbox, fin, last_cmd, mirror>>
vars == <<ledger_events, uuid_ctr, ret, tamper, verify_result, now, memories_table,
          memories, anchor_file, anchor_history, rem, dp, dp_runs, outbox, fin,
          last_cmd, mirror>>

\* ------------------------------------------------------------- utilities

GENESIS_HASH == "GENESIS"

\* new_uuid(): the n-th identifier handed out; all are distinct.
new_uuid(n) == "uuid-" \o ToString(n)

\* A fixed-width timestamp as text.
iso(t) == "T" \o ToString(t)

\* sha256_hex: an injective symbolic digest.
sha256_hex(s) == "sha256(" \o s \o ")"

\* Dictionary keys in the order str comparison gives them (json sort_keys).
SortedKeys == <<"a", "b", "category", "created_at", "memory_id", "text">>

\* A dict is a sequence of <<key, value>> pairs in insertion order, keys distinct.
HasKey(obj, k) == \E i \in DOMAIN obj : obj[i][1] = k
Lookup(obj, k) == obj[CHOOSE i \in DOMAIN obj : obj[i][1] = k][2]

RECURSIVE JoinStr(_, _)
JoinStr(sep, parts) ==
    IF parts = <<>> THEN ""
    ELSE IF Len(parts) = 1 THEN parts[1]
    ELSE parts[1] \o sep \o JoinStr(sep, Tail(parts))

\* Mutant of canonical_json: the keys are written in insertion order.
canonical_json_InsertionOrder(obj) ==
    LET items == [i \in DOMAIN obj |->
                    "\"" \o obj[i][1] \o "\":\"" \o obj[i][2] \o "\""]
    IN  "{" \o JoinStr(",", items) \o "}"

\* json.dumps(obj, sort_keys=True, separators=(",", ":")) of a dict of strings.
canonical_json(obj) ==
    LET keys  == SelectSeq(SortedKeys, LAMBDA k : HasKey(obj, k))
        items == [i \in DOMAIN keys |->
                    "\"" \o keys[i] \o "\":\"" \o Lookup(obj, keys[i]) \o "\""]
    IN  "{" \o JoinStr(",", items) \o "}"

\* ------------------------------------------------------------ hash chain

\* Mutant of material: entity_id and entity_type change places.
material_FieldsSwapped(prev_hash, created_at, event_type, entity_type, entity_id, payload_json) ==
    JoinStr("|", <<prev_hash, iso(created_at), event_type, entity_id,
                   entity_type, payload_json>>)

\* "|".join([prev_hash, created_at, event_type, entity_type, entity_id, payload_json])
material(prev_hash, created_at, event_type, entity_type, entity_id, payload_json) ==
    JoinStr("|", <<prev_hash, iso(created_at), event_type, entity_type,
                   entity_id, payload_json>>)

\* Mutant of InsertByCreatedAt: rows of equal created_at come newest first.
RECURSIVE InsertByCreatedAt_TiesReversed(_, _)
InsertByCreatedAt_TiesReversed(sorted, row) ==
    IF sorted = <<>> THEN <<row>>
    ELSE IF sorted[Len(sorted)].created_at < row.created_at
         THEN Append(sorted, row)
         ELSE Append(InsertByCreatedAt_TiesReversed(SubSeq(sorted, 1, Len(sorted) - 1), row),
                     sorted[Len(sorted)])

\* Rows in the order the index on created_at yields them: created_at ascending,
\* rows of equal created_at in rowid order (a stable insertion sort).
RECURSIVE InsertByCreatedAt(_, _)
InsertByCreatedAt(sorted, row) ==
    IF sorted = <<>> THEN <<row>>
    ELSE IF sorted[Len(sorted)].created_at <= row.created_at
         THEN Append(sorted, row)
         ELSE Append(InsertByCreatedAt(SubSeq(sorted, 1, Len(sorted) - 1), row),
                     sorted[Len(sorted)])

RECURSIVE OrderByCreatedAt(_)
OrderByCreatedAt(rows) ==
    IF rows = <<>> THEN <<>>
    ELSE InsertByCreatedAt(OrderByCreatedAt(SubSeq(rows, 1, Len(rows) - 1)),
                           rows[Len(rows)])

\* SELECT event_hash FROM ledger_events ORDER BY created_at DESC LIMIT 1
get_last_event_hash(rows) ==
    IF rows = <<>> THEN GENESIS_HASH
    ELSE LET ordered == OrderByCreatedAt(rows) IN ordered[Len(ordered)].event_hash

\* The row append_event inserts once it has read prev_hash as the tip, given
\* the identifier new_uuid() returns.
EventRow(prev_hash, event_id, event_type, entity_type, entity_id, created_at, payload) ==
    LET payload_json == canonical_json(payload)
    IN  [event_id     |-> event_id,
         created_at   |-> created_at,
         event_type   |-> event_type,
         entity_type  |-> entity_type,
         entity_id    |-> entity_id,
         payload_json |-> payload_json,
         prev_hash    |-> prev_hash,
         event_hash   |-> sha256_hex(material(prev_hash, created_at, event_type,
                                              entity_type, entity_id, payload_json))]

\* ... when the read of the tip and the INSERT see the same rows.
NewEventRow(rows, event_id, event_type, entity_type, entity_id, created_at, payload) ==
    EventRow(get_last_event_hash(rows), event_id, event_type, entity_type, entity_id,
             created_at, payload)

\* Mutant of InsertAllowed: no unique index on event_hash.
InsertAllowed_NoUniqueHash(rows, row) ==
    \A i \in DOMAIN rows : rows[i].event_id # row.event_id

\* The unique index on event_hash and the primary key on event_id.
InsertAllowed(rows, row) ==
    \A i \in DOMAIN rows :
        rows[i].event_hash # row.event_hash /\ rows[i].event_id # row.event_id

\* Outcomes of verify_chain / verify_anchor.
Ok(h) == [ok |-> TRUE, value |-> h, error |-> "", idx |-> 0]
Err(msg, i) == [ok |-> FALSE, value |-> "", error |-> msg, idx |-> i]
NoResult == [ok |-> FALSE, value |-> "", error |-> "not run", idx |-> 0]

ChainBroken == "Chain broken: prev_hash mismatch"
TamperDetected == "Tamper detected: hash mismatch"

\* Mutant of ScanChain: the recomputed hash is never compared.
RECURSIVE ScanChain_NoHashCheck(_, _, _)
ScanChain_NoHashCheck(events, idx, prev) ==
    IF idx > Len(events) THEN Ok(prev)
    ELSE LET e == events[idx] IN
         IF e.prev_hash # prev THEN Err(ChainBroken, idx)
         ELSE ScanChain_NoHashCheck(events, idx + 1, e.event_hash)

\* Mutant of ScanChain: the link to the previous event is never compared.
RECURSIVE ScanChain_NoLinkCheck(_, _, _)
ScanChain_NoLinkCheck(events, idx, prev) ==
    IF idx > Len(events) THEN Ok(prev)
    ELSE LET e == events[idx] IN
         IF sha256_hex(material(e.prev_hash, e.created_at, e.event_type,
                                e.entity_type, e.entity_id, e.payload_json))
               # e.event_hash
         THEN Err(TamperDetected, idx)
         ELSE ScanChain_NoLinkCheck(events, idx + 1, e.event_hash)

\* Mutant of ScanChain: the hash of an event is checked before its link.
RECURSIVE ScanChain_HashBeforeLink(_, _, _)
ScanChain_HashBeforeLink(events, idx, prev) ==
    IF idx > Len(events) THEN Ok(prev)
    ELSE LET e == events[idx] IN
         IF sha256_hex(material(e.prev_hash, e.created_at, e.event_type,
                                e.entity_type, e.entity_id, e.payload_json))
               # e.event_hash
         THEN Err(TamperDetected, idx)
         ELSE IF e.prev_hash # prev THEN Err(ChainBroken, idx)
              ELSE ScanChain_HashBeforeLink(events, idx + 1, e.event_hash)

\* The loop of verify_chain over the ordered events, from position idx on.
RECURSIVE ScanChain(_, _, _)
ScanChain(events, idx, prev) ==
    IF idx > Len(events) THEN Ok(prev)
    ELSE LET e == events[idx] IN
         IF e.prev_hash # prev THEN Err(ChainBroken, idx)
         ELSE IF sha256_hex(material(e.prev_hash, e.created_at, e.event_type,
                                     e.entity_type, e.entity_id, e.payload_json))
                    # e.event_hash
              THEN Err(TamperDetected, idx)
              ELSE ScanChain(events, idx + 1, e.event_hash)

\* Mutant of verify_chain: without the empty-store case, the tip is taken from
\* the last row, which an empty store does not have.
verify_chain_NoEmptyCase(rows) ==
    LET events == OrderByCreatedAt(rows)
    IN  IF events = <<>> THEN Err("IndexError", 0)
        ELSE ScanChain(events, 1, GENESIS_HASH)

verify_chain(rows) ==
    LET events == OrderByCreatedAt(rows)
    IN  IF events = <<>> THEN Ok(GENESIS_HASH)
        ELSE ScanChain(events, 1, GENESIS_HASH)

\* ai_layer's copy of the verifier.
ai_verify_chain(rows) ==
    LET events == OrderByCreatedAt(rows)
    IN  IF events = <<>> THEN Ok(GENESIS_HASH)
        ELSE ScanChain(events, 1, GENESIS_HASH)

\* ---------------------------------------------------------- anchor files

\* File text is a sequence of tokens; "\n", "=" and " " are tokens of their own.

RECURSIVE Strip(_)
Strip(line) ==
    IF line = <<>> THEN line
    ELSE IF Head(line) = " " THEN Strip(Tail(line))
    ELSE IF line[Len(line)] = " " THEN Strip(SubSeq(line, 1, Len(line) - 1))
    ELSE line

\* str.strip() of a whole text: blanks and line ends go from both ends.
RECURSIVE StripWs(_)
StripWs(text) ==
    IF text = <<>> THEN text
    ELSE IF Head(text) \in {" ", "\n"} THEN StripWs(Tail(text))
    ELSE IF text[Len(text)] \in {" ", "\n"} THEN StripWs(SubSeq(text, 1, Len(text) - 1))
    ELSE text

\* The lines of a text, without their line ends.
RECURSIVE Lines(_)
Lines(text) ==
    IF text = <<>> THEN <<>>
    ELSE IF \E i \in DOMAIN text : text[i] = "\n"
         THEN LET i == CHOOSE j \in DOMAIN text :
                          text[j] = "\n" /\ \A k \in 1..(j - 1) : text[k] # "\n"
              IN  <<SubSeq(text, 1, i - 1)>> \o Lines(SubSeq(text, i + 1, Len(text)))
         ELSE <<text>>

\* line.split("=", 1), each part stripped and joined back to a string.
SplitKey(line) ==
    LET i == CHOOSE j \in DOMAIN line : line[j] = "=" /\ \A k \in 1..(j - 1) : line[k] # "="
    IN  JoinStr("", Strip(SubSeq(line, 1, i - 1)))
SplitValue(line) ==
    LET i == CHOOSE j \in DOMAIN line : line[j] = "=" /\ \A k \in 1..(j - 1) : line[k] # "="
    IN  JoinStr("", Strip(SubSeq(line, i + 1, Len(line))))

\* What write_anchor_files writes to the anchor file and appends to the history.
AnchorFileText(latest_hash, note, created_at) ==
    <<"latest_hash", "=", latest_hash, "\n", "timestamp", "=", iso(created_at), "\n",
      "note", "=">> \o note \o <<"\n">>
HistoryLine(latest_hash, note, created_at) ==
    <<iso(created_at), " | ", latest_hash, " | ">> \o note \o <<"\n">>

\* read_anchor_file: the dict of the key=value lines, later lines overriding
\* earlier ones; here its .get(key), "" standing for None.
read_anchor_file(file, key) ==
    LET kv == SelectSeq(Lines(file.content),
                        LAMBDA l : (\E i \in DOMAIN Strip(l) : Strip(l)[i] = "=")
                                   /\ SplitKey(Strip(l)) = key)
    IN  IF kv = <<>> THEN "" ELSE SplitValue(Strip(kv[Len(kv)]))

AnchorNotFound == "Anchor file not found"
AnchorMissingHash == "Anchor file missing latest_hash"
AnchorMismatch == "ANCHOR MISMATCH"

\* Mutant of CompareAnchor: the two hashes are never compared.
CompareAnchor_NoCompare(db_last, file) ==
    IF ~file.exists THEN Err(AnchorNotFound, 0)
    ELSE LET anchored == read_anchor_file(file, "latest_hash")
         IN  IF anchored = "" THEN Err(AnchorMissingHash, 0) ELSE Ok(anchored)

\* Mutant of CompareAnchor: a missing latest_hash is not looked for.
CompareAnchor_NoMissingCheck(db_last, file) ==
    IF ~file.exists THEN Err(AnchorNotFound, 0)
    ELSE LET anchored == read_anchor_file(file, "latest_hash")
         IN  IF db_last # anchored THEN Err(AnchorMismatch, 0)
             ELSE Ok(anchored)

\* verify_anchor, after its verify_chain returned db_last.
CompareAnchor(db_last, file) ==
    IF ~file.exists THEN Err(AnchorNotFound, 0)
    ELSE LET anchored == read_anchor_file(file, "latest_hash")
         IN  IF anchored = "" THEN Err(AnchorMissingHash, 0)
             ELSE IF db_last # anchored THEN Err(AnchorMismatch, 0)
             ELSE Ok(anchored)

\* today_utc() at clock value t (in seconds).
today_utc(t) == "day" \o ToString(t \div 86400)

\* ------------------------------------------------- the store on its own

\* What callers of ledger.append_event pass.
EventInputs ==
    { [event_type |-> "decision.create", entity_type |-> "decision",
       entity_id |-> "D-1", payload |-> <<<<"b", "1">>, <<"a", "2">>>>],
      [event_type |-> "outcome.add", entity_type |-> "outcome",
       entity_id |-> "O-1", payload |-> <<<<"a", "2">>>>] }

NoTamper == [kind |-> "none", field |-> "", idx |-> 0, last |-> 0,
             pre |-> NoResult, pre_order |-> <<>>]

\* Position of the row with this event_id in the scan order.
ScanIndex(rows, event_id) ==
    LET ordered == OrderByCreatedAt(rows)
    IN  CHOOSE i \in DOMAIN ordered : ordered[i].event_id = event_id

ScanOrder(rows) ==
    LET ordered == OrderByCreatedAt(rows)
    IN  [i \in DOMAIN ordered |-> ordered[i].event_id]

Writers == {"w1", "w2"}

IdleRemember == [pc |-> "idle", created_at |-> 0, memory_id |-> "", category |-> "",
                 text |-> "", latest_hash |-> ""]

IdlePublish == [pc |-> "idle", label |-> <<>>, last_hash |-> "", ts |-> 0,
                note |-> <<>>, db_last |-> "", error |-> "", sent |-> FALSE]

IdleFinalize == [pc |-> "idle", action |-> "", reason |-> "", review_at |-> 0,
                 record_line |-> <<>>, new_hash |-> "", old_history |-> <<>>]

\* The state after "ledger.py init": the schema exists, no rows, no anchor files.
Init ==
    /\ ledger_events = <<>>
    /\ uuid_ctr = 0
    /\ ret = ""
    /\ tamper = NoTamper
    /\ verify_result = NoResult
    /\ now = 1
    /\ memories_table = FALSE
    /\ memories = <<>>
    /\ anchor_file = [exists |-> FALSE, content |-> <<>>]
    /\ anchor_history = <<>>
    /\ rem = [w \in Writers |-> IdleRemember]
    /\ dp = IdlePublish
    /\ dp_runs = 0
    /\ outbox = <<>>
    /\ fin = IdleFinalize
    /\ last_cmd = [cmd |-> "", rc |-> 0]
    /\ mirror = <<>>

\* One committed call of ledger.append_event by a single writer, its arguments
\* drawn from inputs.
AppendEventFrom(inputs) ==
    /\ tamper.kind = "none"
    /\ Len(ledger_events) < MaxEvents
    /\ \E inp \in inputs, created_at \in 1..MaxTime :
         LET row == NewEventRow(ledger_events, new_uuid(uuid_ctr + 1), inp.event_type,
                                inp.entity_type, inp.entity_id, created_at, inp.payload)
         IN  /\ InsertAllowed(ledger_events, row)
             /\ ledger_events' = Append(ledger_events, row)
             /\ ret' = row.event_hash
    /\ uuid_ctr' = uuid_ctr + 1
    /\ verify_result' = NoResult
    /\ UNCHANGED <<tamper, sys_vars>>

AppendEvent == AppendEventFrom(EventInputs)

\* The verify-chain command.
VerifyChain ==
    /\ verify_result = NoResult
    /\ verify_result' = verify_chain(ledger_events)
    /\ UNCHANGED <<ledger_events, uuid_ctr, ret, tamper, sys_vars>>

\* Columns of ledger_events.
Columns == {"event_id", "created_at", "event_type", "entity_type", "entity_id",
            "payload_json", "prev_hash", "event_hash"}

\* Columns that enter the hash material.
HashedColumns == {"created_at", "event_type", "entity_type", "entity_id",
                  "payload_json"}

\* Values an out-of-band edit may put into a column of row r.
EditValues(rows, r, col) ==
    IF col = "created_at" THEN (1..MaxTime) \ {rows[r].created_at}
    ELSE IF col = "prev_hash"
         THEN ({GENESIS_HASH, "X"} \cup {rows[i].event_hash : i \in DOMAIN rows})
              \ {rows[r].prev_hash}
         ELSE {"X"}

RemoveAt(rows, r) == SubSeq(rows, 1, r - 1) \o SubSeq(rows, r + 1, Len(rows))

TamperRecord(kind, col, rows, r) ==
    [kind |-> kind, field |-> col, idx |-> ScanIndex(rows, rows[r].event_id),
     last |-> Len(rows), pre |-> verify_chain(rows), pre_order |-> ScanOrder(rows)]

\* Someone with write access to the database file changes one column of one row.
TamperField ==
    /\ tamper.kind = "none"
    /\ \E r \in DOMAIN ledger_events, col \in Columns :
         \E v \in EditValues(ledger_events, r, col) :
            /\ ledger_events' = [ledger_events EXCEPT ![r][col] = v]
            /\ tamper' = TamperRecord("field", col, ledger_events, r)
    /\ verify_result' = NoResult
    /\ UNCHANGED <<uuid_ctr, ret, sys_vars>>

\* ... or deletes one row.
TamperDelete ==
    /\ tamper.kind = "none"
    /\ \E r \in DOMAIN ledger_events :
         /\ ledger_events' = RemoveAt(ledger_events, r)
         /\ tamper' = TamperRecord("delete", "", ledger_events, r)
    /\ verify_result' = NoResult
    /\ UNCHANGED <<uuid_ctr, ret, sys_vars>>

\* ... or exchanges the created_at of two rows, which reorders them.
TamperSwap ==
    /\ tamper.kind = "none"
    /\ \E r1, r2 \in DOMAIN ledger_events :
         /\ r1 < r2
         /\ ledger_events[r1].created_at # ledger_events[r2].created_at
         /\ ledger_events' =
              [ledger_events EXCEPT ![r1].created_at = ledger_events[r2].created_at,
                                    ![r2].created_at = ledger_events[r1].created_at]
         /\ tamper' = TamperRecord("swap", "created_at", ledger_events, r1)
    /\ verify_result' = NoResult
    /\ UNCHANGED <<uuid_ctr, ret, sys_vars>>

ChainNext == AppendEvent \/ VerifyChain \/ TamperField \/ TamperDelete \/ TamperSwap

SpecChain == Init /\ [][ChainNext]_vars

\* --------------------------------- fields that hold the separator of the material

\* append_event takes any text: here an entity_id with "|" in it, and one without.
SeparatorInputs ==
    { [event_type |-> "decision.create", entity_type |-> "decision",
       entity_id |-> "D|1", payload |-> <<<<"a", "2">>>>],
      [event_type |-> "decision.create", entity_type |-> "decision",
       entity_id |-> "D-1", payload |-> <<<<"a", "2">>>>] }

\* Texts an out-of-band edit may put into entity_type and entity_id.
SeparatorEdits == {"decision", "decision|D", "D|1", "D-1", "1"}

SeparatorAppend == AppendEventFrom(SeparatorInputs)

\* Someone with write access to the database file changes entity_type and
\* entity_id of one row in one edit.
TamperFields ==
    /\ tamper.kind = "none"
    /\ \E r \in DOMAIN ledger_events, t \in SeparatorEdits, i \in SeparatorEdits :
         /\ <<t, i>> # <<ledger_events[r].entity_type, ledger_events[r].entity_id>>
         /\ ledger_events' = [ledger_events EXCEPT ![r].entity_type = t,
                                                   ![r].entity_id = i]
         /\ tamper' = TamperRecord("fields", "entity_type,entity_id", ledger_events, r)
    /\ verify_result' = NoResult
    /\ UNCHANGED <<uuid_ctr, ret, sys_vars>>

SeparatorNext == SeparatorAppend \/ VerifyChain \/ TamperFields

SpecSeparator == Init /\ [][SeparatorNext]_vars

\* ------------------------------------------------------------ the system

\* The values a read of the clock may return: the clock never runs backwards,
\* and now is the latest value any process has read.
ClockReads == now..MaxClock

\* What "ai_layer.py remember" is given.
Categories == {"belief"}
Texts == {"x"}

\* Writer processes are interchangeable: the second one is only needed while
\* the first one is in a call.
FirstWriter(v, w) == v = "w1" /\ w = "w2"

\* remember(), up to connect(): the timestamp and the memory id are taken
\* before the database is opened.
RememberStart(w) ==
    /\ rem[w].pc = "idle"
    /\ \A v \in Writers : FirstWriter(v, w) => rem[v].pc # "idle"
    /\ uuid_ctr + 2 <= 2 * MaxRemember
    /\ \E category \in Categories, text \in Texts, t \in ClockReads :
         /\ now' = t
         /\ rem' = [rem EXCEPT ![w] = [pc |-> "txn", created_at |-> t,
                                       memory_id |-> new_uuid(uuid_ctr + 1),
                                       category |-> category, text |-> text,
                                       latest_hash |-> ""]]
    /\ uuid_ctr' = uuid_ctr + 1
    /\ UNCHANGED <<ledger_events, ret, tamper, verify_result, memories_table,
                   memories, file_vars, dp, dp_runs, outbox, dom_vars>>

MemoryRow(memory_id, created_at, category, text) ==
    [memory_id |-> memory_id, created_at |-> created_at, category |-> category,
     text |-> text]

\* The event remember() appends for its memory.
RememberEvent(rows, event_id, r) ==
    NewEventRow(rows, event_id, "memory.add", "memory", r.memory_id, r.created_at,
                << <<"memory_id", r.memory_id>>, <<"created_at", iso(r.created_at)>>,
                   <<"category", r.category>>, <<"text", r.text>> >>)

\* remember()'s transaction: the memory row and its event, committed together.
\* SQLite's write lock, taken by the first INSERT, covers the read of the tip.
RememberCommit(w) ==
    /\ rem[w].pc = "txn"
    /\ LET row == RememberEvent(ledger_events, new_uuid(uuid_ctr + 1), rem[w])
       IN  /\ InsertAllowed(ledger_events, row)
           /\ ledger_events' = Append(ledger_events, row)
           /\ ret' = row.event_hash
           /\ rem' = [rem EXCEPT ![w].pc = "anchor", ![w].latest_hash = row.event_hash]
    /\ memories_table' = TRUE
    /\ memories' = Append(memories, MemoryRow(rem[w].memory_id, rem[w].created_at,
                                              rem[w].category, rem[w].text))
    /\ uuid_ctr' = uuid_ctr + 1
    /\ verify_result' = NoResult
    /\ UNCHANGED <<tamper, now, file_vars, dp, dp_runs, outbox, dom_vars>>

\* An exception inside the try block (database locked, I/O error): the
\* connection is closed without commit, which rolls both inserts back.  The
\* CREATE TABLE of ensure_memories_table ran in autocommit mode and stays.
RememberFail(w) ==
    /\ rem[w].pc = "txn"
    /\ rem' = [rem EXCEPT ![w] = IdleRemember]
    /\ memories_table' = TRUE
    /\ UNCHANGED <<chain_vars, now, memories, file_vars, dp, dp_runs, outbox, dom_vars>>

\* remember(), after the commit: write_anchor_files.
RememberAnchor(w) ==
    /\ rem[w].pc = "anchor"
    /\ LET note == <<"memory.add", " ", rem[w].category, " ", rem[w].memory_id>>
       IN  /\ anchor_file' = [exists |-> TRUE,
                 content |-> AnchorFileText(rem[w].latest_hash, note, rem[w].created_at)]
           /\ anchor_history' =
                 anchor_history \o HistoryLine(rem[w].latest_hash, note, rem[w].created_at)
    /\ rem' = [rem EXCEPT ![w] = IdleRemember]
    /\ UNCHANGED <<chain_vars, now, memories_table, memories, dp, dp_runs, outbox, dom_vars>>

\* Labels "ledger.py daily-publish --label" is run with.
Labels == {<<"EOD">>}

\* Mutant of DpVerify: a chain error is swallowed and the run goes on with the
\* tip the store reports.
DpVerify_IgnoreChainError ==
    /\ dp.pc \in {"idle", "done"}
    /\ dp_runs < MaxPublish
    /\ dp_runs' = dp_runs + 1
    /\ \E label \in Labels :
         dp' = [IdlePublish EXCEPT !.pc = "write", !.label = label,
                                   !.last_hash = get_last_event_hash(ledger_events)]
    /\ UNCHANGED <<chain_vars, now, memories_table, memories, file_vars, rem, outbox, dom_vars>>

\* daily_publish step 1: verify_chain.  A chain error ends the run.  At most
\* limit runs are started.
DpStartWith(limit, labels) ==
    /\ dp.pc \in {"idle", "done"}
    /\ dp_runs < limit
    /\ dp_runs' = dp_runs + 1
    /\ \E label \in labels :
         LET v == verify_chain(ledger_events)
         IN  dp' = IF v.ok
                   THEN [IdlePublish EXCEPT !.pc = "write", !.label = label,
                                            !.last_hash = v.value]
                   ELSE [IdlePublish EXCEPT !.pc = "done", !.label = label,
                                            !.error = v.error]
    /\ UNCHANGED <<chain_vars, now, memories_table, memories, file_vars, rem, outbox, dom_vars>>

DpStart(limit) == DpStartWith(limit, Labels)

DpVerify == DpStart(MaxPublish)

\* Mutant of DpWrite: a tip that already has a line in the history gets no
\* second one.
DpWrite_Deduplicates ==
    /\ dp.pc = "write"
    /\ \E ts \in ClockReads :
         LET note == Strip(<<"DAILY_ANCHOR", " ", today_utc(ts), " ">> \o dp.label)
         IN  /\ now' = ts
             /\ anchor_file' = [exists |-> TRUE,
                                content |-> AnchorFileText(dp.last_hash, note, ts)]
             /\ anchor_history' =
                   IF \E l \in DOMAIN Lines(anchor_history) :
                         Lines(anchor_history)[l][3] = dp.last_hash
                   THEN anchor_history
                   ELSE anchor_history \o HistoryLine(dp.last_hash, note, ts)
             /\ dp' = [dp EXCEPT !.pc = "recheck_db", !.ts = ts, !.note = note]
    /\ UNCHANGED <<chain_vars, memories_table, memories, rem, dp_runs, outbox, dom_vars>>

\* daily_publish step 2: write_anchor_files with the tip of step 1.
DpWrite ==
    /\ dp.pc = "write"
    /\ \E ts \in ClockReads :
         LET note == Strip(<<"DAILY_ANCHOR", " ", today_utc(ts), " ">> \o dp.label)
         IN  /\ now' = ts
             /\ anchor_file' = [exists |-> TRUE,
                                content |-> AnchorFileText(dp.last_hash, note, ts)]
             /\ anchor_history' = anchor_history \o HistoryLine(dp.last_hash, note, ts)
             /\ dp' = [dp EXCEPT !.pc = "recheck_db", !.ts = ts, !.note = note]
    /\ UNCHANGED <<chain_vars, memories_table, memories, rem, dp_runs, outbox, dom_vars>>

\* daily_publish step 3, verify_anchor, first half: verify_chain again.
DpRecheckDb ==
    /\ dp.pc = "recheck_db"
    /\ LET v == verify_chain(ledger_events)
       IN  dp' = IF v.ok THEN [dp EXCEPT !.pc = "recheck_file", !.db_last = v.value]
                 ELSE [dp EXCEPT !.pc = "done", !.error = v.error]
    /\ UNCHANGED <<chain_vars, now, memories_table, memories, file_vars, rem, dp_runs,
                   outbox, dom_vars>>

\* verify_anchor, second half: read the anchor file and compare.
DpRecheckFile ==
    /\ dp.pc = "recheck_file"
    /\ LET c == CompareAnchor(dp.db_last, anchor_file)
       IN  dp' = IF c.ok THEN [dp EXCEPT !.pc = "send"]
                 ELSE [dp EXCEPT !.pc = "done", !.error = c.error]
    /\ UNCHANGED <<chain_vars, now, memories_table, memories, file_vars, rem, dp_runs,
                   outbox, dom_vars>>

SmtpMissingEnv == "Missing SMTP environment variables"
SmtpFailure == "SMTP failure"

\* The mail daily_publish hands to send_email.
Mail ==
    [subject_hash |-> dp.last_hash,
     body |-> [type |-> "daily_anchor", date_utc |-> today_utc(now), label |-> dp.label,
               timestamp |-> iso(dp.ts), latest_hash |-> dp.last_hash]]

\* daily_publish step 4: send_email delivers the mail ...
DpSendOk ==
    /\ dp.pc = "send"
    /\ outbox' = Append(outbox, Mail)
    /\ dp' = [dp EXCEPT !.pc = "done", !.sent = TRUE]
    /\ UNCHANGED <<chain_vars, now, memories_table, memories, file_vars, rem, dp_runs, dom_vars>>

\* Mutant of DpSendFail: the failed run takes its anchor back.
DpSendFail_RollsBack ==
    /\ dp.pc = "send"
    /\ \E e \in {SmtpMissingEnv, SmtpFailure} : dp' = [dp EXCEPT !.pc = "done", !.error = e]
    /\ anchor_file' = [exists |-> FALSE, content |-> <<>>]
    /\ UNCHANGED <<chain_vars, now, memories_table, memories, anchor_history, rem, dp_runs,
                   outbox, dom_vars>>

\* Mutant of DpSendFail: the failed transmission is reported as sent.
DpSendFail_SilentSuccess ==
    /\ dp.pc = "send"
    /\ dp' = [dp EXCEPT !.pc = "done", !.sent = TRUE]
    /\ UNCHANGED <<chain_vars, now, memories_table, memories, file_vars, rem, dp_runs,
                   outbox, dom_vars>>

\* ... or raises: SMTP settings missing, or connect/starttls/login/send failed
\* or timed out.
DpSendFail ==
    /\ dp.pc = "send"
    /\ \E e \in {SmtpMissingEnv, SmtpFailure} : dp' = [dp EXCEPT !.pc = "done", !.error = e]
    /\ UNCHANGED <<chain_vars, now, memories_table, memories, file_vars, rem, dp_runs,
                   outbox, dom_vars>>

\* ------------------------------------------------------ domain writers

\* Command-line arguments of review_decision.py, respond.py and finalize.py.
ReviewArgs == {[type |-> "Pricing", desc |-> "raise prices"]}
ActionArgs == {"APPROVE", "defer", "MAYBE"}
ReasonArgs == {"ok"}

\* str.upper() on the action arguments.
Upper(a) == IF a = "defer" THEN "DEFER" ELSE a

ValidActions == {"APPROVE", "REJECT", "DEFER"}

\* review_decision.main's review text when no decision of the type is stored.
ReviewText(type, desc) ==
    JoinStr(" | ", <<"REVIEW | Planned decision", "Type: " \o type,
                     "Decision: " \o desc, "Past decisions of this type: 0",
                     "Observed harms: (none tagged yet)", "Risk: LOW",
                     "Counterfactuals: (none stored for this type yet)">>)

\* SELECT created_at, text FROM memories WHERE category='review'
\* ORDER BY created_at DESC LIMIT 1
Reviews(rows) == OrderByCreatedAt(SelectSeq(rows, LAMBDA m : m.category = "review"))
HasReview(rows) == Reviews(rows) # <<>>
LatestReview(rows) == Reviews(rows)[Len(Reviews(rows))]

\* The INSERT of these scripts names no memory_id: the column stays NULL.
NullId == "NULL"

Done(cmd, rc) == last_cmd' = [cmd |-> cmd, rc |-> rc]

\* review_decision.py: saves the review as a memories row, and nothing else.
ReviewDecision ==
    /\ fin.pc = "idle"
    /\ IF memories_table /\ Len(memories) < MaxMemories
       THEN \E a \in ReviewArgs, t \in ClockReads :
              /\ now' = t
              /\ memories' = Append(memories,
                                MemoryRow(NullId, t, "review", ReviewText(a.type, a.desc)))
              /\ Done("review_decision", 0)
       ELSE /\ ~memories_table
            /\ Done("review_decision", 1)
            /\ UNCHANGED <<now, memories>>
    /\ UNCHANGED <<chain_vars, memories_table, file_vars, rem, dp, dp_runs, outbox, mirror, fin>>

ResponseText(action, review, reason) ==
    "RESPONSE | " \o action \o " | ReviewAt: " \o iso(review.created_at)
        \o " | Reason: " \o reason \o " | Review: " \o review.text

FinalResponseText(action, review, reason) ==
    "RESPONSE | " \o action \o " | FINAL: yes | ReviewAt: " \o iso(review.created_at)
        \o " | Reason: " \o reason \o " | Review: " \o review.text

\* respond.py run with these arguments: saves a response to the most recent
\* review, or ends with an error.
RespondWith(arg, reason) ==
    /\ fin.pc = "idle"
    /\ IF Upper(arg) \in ValidActions /\ memories_table /\ HasReview(memories)
       THEN /\ Len(memories) < MaxMemories
            /\ \E t \in ClockReads :
                 /\ now' = t
                 /\ memories' = Append(memories,
                       MemoryRow(NullId, t, "response",
                                 ResponseText(Upper(arg), LatestReview(memories), reason)))
            /\ Done("respond", 0)
       ELSE /\ Done("respond", 1)
            /\ UNCHANGED <<now, memories>>
    /\ UNCHANGED <<chain_vars, memories_table, file_vars, rem, dp, dp_runs, outbox, mirror, fin>>

Respond == \E arg \in ActionArgs, reason \in ReasonArgs : RespondWith(arg, reason)

\* Mutant of FinalizeDbWith: the action is not checked against the valid ones.
FinalizeDbWith_NoActionCheck(arg, reason) ==
    /\ fin.pc = "idle"
    /\ IF memories_table /\ HasReview(memories)
       THEN /\ Len(memories) < MaxMemories
            /\ \E t \in ClockReads :
                 /\ now' = t
                 /\ memories' = Append(memories,
                       MemoryRow(NullId, t, "response",
                                 FinalResponseText(Upper(arg), LatestReview(memories),
                                                   reason)))
            /\ fin' = [IdleFinalize EXCEPT
                          !.pc = "anchor", !.action = Upper(arg), !.reason = reason,
                          !.review_at = LatestReview(memories).created_at]
            /\ UNCHANGED last_cmd
       ELSE /\ Done("finalize", 1)
            /\ UNCHANGED <<now, memories, fin>>
    /\ UNCHANGED <<chain_vars, memories_table, file_vars, rem, dp, dp_runs, outbox, mirror>>

\* finalize.py run with these arguments, up to conn.close(): saves the FINAL
\* response, or ends with an error.
FinalizeDbWith(arg, reason) ==
    /\ fin.pc = "idle"
    /\ IF Upper(arg) \in ValidActions /\ memories_table /\ HasReview(memories)
       THEN /\ Len(memories) < MaxMemories
            /\ \E t \in ClockReads :
                 /\ now' = t
                 /\ memories' = Append(memories,
                       MemoryRow(NullId, t, "response",
                                 FinalResponseText(Upper(arg), LatestReview(memories),
                                                   reason)))
            /\ fin' = [IdleFinalize EXCEPT
                          !.pc = "anchor", !.action = Upper(arg), !.reason = reason,
                          !.review_at = LatestReview(memories).created_at]
            /\ UNCHANGED last_cmd
       ELSE /\ Done("finalize", 1)
            /\ UNCHANGED <<now, memories, fin>>
    /\ UNCHANGED <<chain_vars, memories_table, file_vars, rem, dp, dp_runs, outbox, mirror>>

FinalizeDb == \E arg \in ActionArgs, reason \in ReasonArgs : FinalizeDbWith(arg, reason)

\* finalize.read_prev_anchor
read_prev_anchor(file) ==
    LET content == StripWs(file.content)
        lines   == Lines(content)
        tagged  == SelectSeq(lines, LAMBDA l : Len(Strip(l)) >= 2
                                /\ Strip(l)[1] = "latest_hash" /\ Strip(l)[2] = "=")
    IN  IF ~file.exists THEN "GENESIS"
        ELSE IF content = <<>> THEN "GENESIS"
        ELSE IF tagged # <<>>
             THEN JoinStr("", Strip(SubSeq(Strip(tagged[1]), 3, Len(Strip(tagged[1])))))
             ELSE JoinStr("", Strip(lines[1]))

NoAnchorYet == "(no anchor yet)"

\* demo_report.read_latest_hash: as read_prev_anchor, but a line is not
\* stripped before it is tested for its latest_hash= prefix.
read_latest_hash(file) ==
    LET content == StripWs(file.content)
        lines   == Lines(content)
        tagged  == SelectSeq(lines, LAMBDA l : Len(l) >= 2
                                /\ l[1] = "latest_hash" /\ l[2] = "=")
    IN  IF ~file.exists THEN NoAnchorYet
        ELSE IF content = <<>> THEN NoAnchorYet
        ELSE IF tagged # <<>>
             THEN JoinStr("", Strip(SubSeq(tagged[1], 3, Len(tagged[1]))))
             ELSE JoinStr("", Strip(lines[1]))

\* The note finalize.main passes to anchor_record.
FinalizeNote == <<"finalize", " ", fin.action, " ", iso(fin.review_at)>>

\* finalize.py, from the record line on.  anchor_record, first step: the record
\* line is built and chained to what read_prev_anchor finds in the anchor file.
FinalizeReadAnchor ==
    /\ fin.pc = "anchor"
    /\ \E t1 \in ClockReads :
         LET record_line == <<iso(t1), " | ", "FINAL", " | ", fin.action, " | ",
                              "ReviewAt: ", iso(fin.review_at), " | ", "Reason: ",
                              fin.reason>>
             prev        == read_prev_anchor(anchor_file)
         IN  /\ now' = t1
             /\ fin' = [fin EXCEPT
                          !.pc = "read_history", !.record_line = record_line,
                          !.new_hash = sha256_hex(prev \o "\n" \o JoinStr("", record_line))]
    /\ UNCHANGED <<chain_vars, memories_table, memories, file_vars, rem, dp, dp_runs,
                   outbox, mirror, last_cmd>>

\* append_history_line, first half: the whole history file is read ...
FinalizeReadHistory ==
    /\ fin.pc = "read_history"
    /\ fin' = [fin EXCEPT !.pc = "write_history", !.old_history = anchor_history]
    /\ UNCHANGED <<chain_vars, now, memories_table, memories, file_vars, rem, dp, dp_runs,
                   outbox, mirror, last_cmd>>

\* ... second half: the file is written anew, as what was read plus one line.
FinalizeWriteHistory ==
    /\ fin.pc = "write_history"
    /\ anchor_history' = fin.old_history \o fin.record_line
                            \o <<" | ", fin.new_hash, " | ">> \o FinalizeNote \o <<"\n">>
    /\ fin' = [fin EXCEPT !.pc = "write_anchor"]
    /\ UNCHANGED <<chain_vars, now, memories_table, memories, anchor_file, rem, dp, dp_runs,
                   outbox, mirror, last_cmd>>

\* finalize.write_anchor_file, with its own reading of the clock.
FinalizeWriteAnchor ==
    /\ fin.pc = "write_anchor"
    /\ \E t2 \in ClockReads :
         /\ now' = t2
         /\ anchor_file' =
               [exists |-> TRUE,
                content |-> <<"latest_hash", "=", fin.new_hash, "\n", "timestamp", "=",
                              iso(t2), "\n", "note", "=">> \o FinalizeNote \o <<"\n">>]
    /\ fin' = IdleFinalize
    /\ Done("finalize", 0)
    /\ UNCHANGED <<chain_vars, memories_table, memories, anchor_history, rem, dp, dp_runs,
                   outbox, mirror>>

\* anchor_record as a whole.
FinalizeAnchor ==
    \/ FinalizeReadAnchor
    \/ FinalizeReadHistory
    \/ FinalizeWriteHistory
    \/ FinalizeWriteAnchor

DomainNext ==
    \/ RememberStart("w1")
    \/ RememberCommit("w1")
    \/ RememberFail("w1")
    \/ RememberAnchor("w1")
    \/ ReviewDecision
    \/ Respond
    \/ FinalizeDb
    \/ FinalizeAnchor

SpecDomain == Init /\ [][DomainNext]_vars

Next ==
    \/ \E w \in Writers : RememberStart(w)
    \/ \E w \in Writers : RememberCommit(w)
    \/ \E w \in Writers : RememberAnchor(w)
    \/ DpVerify
    \/ DpWrite
    \/ DpRecheckDb
    \/ DpRecheckFile
    \/ DpSendOk
    \/ DpSendFail

Spec == Init /\ [][Next]_vars

\* ------------------- remember calls one after the other, then publishing
\* ------------------- on a store left alone

\* remember() calls made before the first publish run, one at a time.
QuietRemember ==
    /\ dp_runs = 0
    /\ \/ RememberStart("w1")
       \/ RememberCommit("w1")
       \/ RememberFail("w1")
       \/ RememberAnchor("w1")

\* A publish run started while no one else is writing.
QuietPublish ==
    /\ rem["w1"].pc = "idle"
    /\ DpStart(MaxRepublish)

PublishNext ==
    \/ QuietRemember
    \/ QuietPublish
    \/ DpWrite
    \/ DpRecheckDb
    \/ DpRecheckFile
    \/ DpSendOk
    \/ DpSendFail

SpecPublish == Init /\ [][PublishNext]_vars

\* -------------------------- publishing under different labels, store left alone

\* Values of --label: plain words, and free text with a line break in it.
PublishLabels ==
    {<<"EOD">>, <<"\n", "latest_hash", "=", "x">>, <<"\n", "latest_hash", "=">>}

LabelPublish ==
    /\ rem["w1"].pc = "idle"
    /\ DpStartWith(MaxRepublish, PublishLabels)

LabelNext ==
    \/ QuietRemember
    \/ LabelPublish
    \/ DpWrite
    \/ DpRecheckDb
    \/ DpRecheckFile
    \/ DpSendOk
    \/ DpSendFail

SpecLabel == Init /\ [][LabelNext]_vars

\* ------------------------------ publish runs that are bound to end

\* The first half of verify_anchor ends: verify_chain returns the hash of some
\* event or GENESIS, or raises one of its errors.
DpRecheckDbEnds ==
    /\ dp.pc = "recheck_db"
    /\ dp' \in {[dp EXCEPT !.pc = "recheck_file", !.db_last = h] :
                   h \in {GENESIS_HASH}
                          \cup {ledger_events[i].event_hash : i \in DOMAIN ledger_events}}
                \cup {[dp EXCEPT !.pc = "done", !.error = e] :
                         e \in {ChainBroken, TamperDetected}}
    /\ UNCHANGED <<chain_vars, now, memories_table, memories, file_vars, rem, dp_runs,
                   outbox, dom_vars>>

\* The second half of verify_anchor ends: it returns, or raises one of its errors.
DpRecheckFileEnds ==
    /\ dp.pc = "recheck_file"
    /\ dp' \in {[dp EXCEPT !.pc = "send"]}
                \cup {[dp EXCEPT !.pc = "done", !.error = e] :
                         e \in {AnchorNotFound, AnchorMissingHash, AnchorMismatch}}
    /\ UNCHANGED <<chain_vars, now, memories_table, memories, file_vars, rem, dp_runs,
                   outbox, dom_vars>>

\* Appends with any created_at, made before the first publish run: they can
\* leave a chain that verify_chain rejects.
LiveAppend ==
    /\ dp_runs = 0
    /\ Len(ledger_events) < MaxLiveEvents
    /\ AppendEvent

LiveNext ==
    \/ LiveAppend
    \/ DpStartWith(MaxPublish, PublishLabels)
    \/ DpWrite
    \/ DpRecheckDb
    \/ DpRecheckFile
    \/ DpSendOk
    \/ DpSendFail

\* A daily_publish process, once started, keeps running: each of its steps is
\* taken when it is its turn, and send_email returns or raises (every socket
\* operation of smtplib.SMTP(host, port, timeout=15) is bounded by the timeout).
\* The only steps of LiveNext that end the two halves of verify_anchor are those
\* of DpRecheckDb and DpRecheckFile.
SpecLive ==
    /\ Init /\ [][LiveNext]_vars
    /\ WF_vars(DpWrite)
    /\ WF_vars(DpRecheckDbEnds)
    /\ WF_vars(DpRecheckFileEnds)
    /\ WF_vars(DpSendOk \/ DpSendFail)

\* ------------------------------------------------- overlapping appends

\* ledger.append_event called by two processes, each on its own connection.
\* Its SELECT of the tip runs outside any transaction; its INSERT takes the
\* write lock, which the caller's commit releases.

\* append_event line 208: the tip is read.  shared records that another call
\* has read the tip of these same rows and has not inserted yet.
AppendRead(w) ==
    /\ rem[w].pc = "idle"
    /\ \A v \in Writers : FirstWriter(v, w) => rem[v].pc # "idle"
    /\ Len(ledger_events) + Cardinality({v \in Writers : rem[v].pc = "insert"}) < MaxEvents
    /\ \E inp \in EventInputs, created_at \in 1..MaxTime :
         rem' = [rem EXCEPT ![w] =
                   [pc |-> "insert", inp |-> inp, created_at |-> created_at,
                    prev_hash |-> get_last_event_hash(ledger_events),
                    shared |-> \E v \in Writers \ {w} : rem[v].pc = "insert"]]
    /\ UNCHANGED <<chain_vars, now, memories_table, memories, file_vars, dp, dp_runs,
                   outbox, dom_vars>>

\* Mutant of AppendInsert: the tip is read again under the write lock.
AppendInsert_RereadsTip(w) ==
    /\ rem[w].pc = "insert"
    /\ LET r   == rem[w]
           row == NewEventRow(ledger_events, new_uuid(uuid_ctr + 1), r.inp.event_type,
                              r.inp.entity_type, r.inp.entity_id, r.created_at,
                              r.inp.payload)
       IN  IF InsertAllowed(ledger_events, row)
           THEN /\ ledger_events' = Append(ledger_events, row)
                /\ ret' = row.event_hash
                /\ rem' = [rem EXCEPT ![w].pc = "done"]
                /\ uuid_ctr' = uuid_ctr + 1
                /\ verify_result' = NoResult
           ELSE /\ rem' = [rem EXCEPT ![w].pc = "failed"]
                /\ UNCHANGED <<ledger_events, ret, verify_result, uuid_ctr>>
    /\ UNCHANGED <<tamper, now, memories_table, memories, file_vars, dp, dp_runs, outbox,
                   dom_vars>>

\* append_event lines 209-220 and the caller's commit: the row is built on the
\* tip read before and inserted; the unique index rejects a hash already stored
\* (the identifier drawn for a rejected row is never seen again).
AppendInsert(w) ==
    /\ rem[w].pc = "insert"
    /\ LET r   == rem[w]
           row == EventRow(r.prev_hash, new_uuid(uuid_ctr + 1), r.inp.event_type,
                           r.inp.entity_type, r.inp.entity_id, r.created_at, r.inp.payload)
       IN  IF InsertAllowed(ledger_events, row)
           THEN /\ ledger_events' = Append(ledger_events, row)
                /\ ret' = row.event_hash
                /\ rem' = [rem EXCEPT ![w].pc = "done"]
                /\ uuid_ctr' = uuid_ctr + 1
                /\ verify_result' = NoResult
           ELSE /\ rem' = [rem EXCEPT ![w].pc = "failed"]
                /\ UNCHANGED <<ledger_events, ret, verify_result, uuid_ctr>>
    /\ UNCHANGED <<tamper, now, memories_table, memories, file_vars, dp, dp_runs, outbox,
                   dom_vars>>

\* Appends made one at a time, before the two calls that overlap.
SoloAppend ==
    /\ \A w \in Writers : rem[w].pc = "idle"
    /\ AppendEvent

OverlapNext ==
    \/ SoloAppend
    \/ \E w \in Writers : AppendRead(w)
    \/ \E w \in Writers : AppendInsert(w)
    \/ VerifyChain

SpecOverlap == Init /\ [][OverlapNext]_vars

\* Both calls have committed, and one of them read the tip while the other had
\* read it and not yet inserted.
BothCommittedOnOneTip ==
    /\ \A w \in Writers : rem[w].pc = "done"
    /\ \E w \in Writers : rem[w].shared
    /\ \A v, w \in Writers : rem[v].prev_hash = rem[w].prev_hash

\* The event_hash the pending call of writer w has computed.
PendingHash(w) ==
    sha256_hex(material(rem[w].prev_hash, rem[w].created_at, rem[w].inp.event_type,
                        rem[w].inp.entity_type, rem[w].inp.entity_id,
                        canonical_json(rem[w].inp.payload)))

\* ----------------------------------------------- two independent stores

\* The same dict built with its keys inserted in any order.
Reorderings(payload) ==
    LET n     == Len(payload)
        perms == {f \in [1..n -> 1..n] : \A i, j \in 1..n : i # j => f[i] # f[j]}
    IN  {[i \in 1..n |-> payload[f[i]]] : f \in perms}

\* Two databases are given the same append_event call, each by its own
\* process: the payload dicts are equal but built separately, and new_uuid()
\* draws separately.
AppendToBoth ==
    /\ Len(ledger_events) < MaxEvents
    /\ \E inp \in EventInputs, created_at \in 1..MaxTime :
       \E other \in Reorderings(inp.payload) :
         LET row  == NewEventRow(ledger_events, new_uuid(uuid_ctr + 1), inp.event_type,
                                 inp.entity_type, inp.entity_id, created_at, inp.payload)
             twin == NewEventRow(mirror, new_uuid(uuid_ctr + 2), inp.event_type,
                                 inp.entity_type, inp.entity_id, created_at, other)
         IN  /\ InsertAllowed(ledger_events, row)
             /\ InsertAllowed(mirror, twin)
             /\ ledger_events' = Append(ledger_events, row)
             /\ mirror' = Append(mirror, twin)
             /\ ret' = row.event_hash
    /\ uuid_ctr' = uuid_ctr + 2
    /\ verify_result' = NoResult
    /\ UNCHANGED <<tamper, now, memories_table, memories, file_vars, rem, dp, dp_runs,
                   outbox, fin, last_cmd>>

SpecMirror == Init /\ [][AppendToBoth]_vars

\* ------------------------------------------- the anchor files on their own

\* Pieces a free-text note is made of.
NoteTokens == {"x", " ", "\n", "latest_hash", "="}
Notes == UNION {[1..n -> NoteTokens] : n \in 0..MaxNote}

\* Hashes handed to write_anchor_files.
AnchorHashes == {GENESIS_HASH, sha256_hex("m")}

\* The arguments of one write_anchor_files call, not made yet.
AnchorCalls ==
    [cmd : {"args"}, rc : {0}, latest_hash : AnchorHashes, note : Notes,
     created_at : 1..MaxTime]

InitAnchor ==
    /\ ledger_events = <<>>
    /\ uuid_ctr = 0
    /\ ret = ""
    /\ tamper = NoTamper
    /\ verify_result = NoResult
    /\ now = 1
    /\ memories_table = FALSE
    /\ memories = <<>>
    /\ anchor_file = [exists |-> FALSE, content |-> <<>>]
    /\ anchor_history = <<>>
    /\ rem = [w \in Writers |-> IdleRemember]
    /\ dp = IdlePublish
    /\ dp_runs = 0
    /\ outbox = <<>>
    /\ fin = IdleFinalize
    /\ last_cmd \in AnchorCalls
    /\ mirror = <<>>

\* ledger.write_anchor_files
WriteAnchorFiles ==
    /\ last_cmd.cmd = "args"
    /\ anchor_file' = [exists |-> TRUE,
                       content |-> AnchorFileText(last_cmd.latest_hash, last_cmd.note,
                                                  last_cmd.created_at)]
    /\ anchor_history' = anchor_history \o HistoryLine(last_cmd.latest_hash, last_cmd.note,
                                                       last_cmd.created_at)
    /\ last_cmd' = [last_cmd EXCEPT !.cmd = "write_anchor_files"]
    /\ UNCHANGED <<chain_vars, now, memories_table, memories, rem, dp, dp_runs, outbox, mirror, fin>>

\* ledger.read_anchor_file(...).get("latest_hash") on the file just written.
ReadAnchorFile ==
    /\ last_cmd.cmd = "write_anchor_files"
    /\ ret' = read_anchor_file(anchor_file, "latest_hash")
    /\ last_cmd' = [last_cmd EXCEPT !.cmd = "read_anchor_file"]
    /\ UNCHANGED <<ledger_events, uuid_ctr, tamper, verify_result, now, memories_table,
                   memories, file_vars, rem, dp, dp_runs, outbox, mirror, fin>>

AnchorNext == WriteAnchorFiles \/ ReadAnchorFile

SpecAnchor == InitAnchor /\ [][AnchorNext]_vars

\* ------------------------------------------ the anchor readers on their own

\* A store of one event, and the stores the readers are run against.
OneEventStore ==
    <<NewEventRow(<<>>, new_uuid(1), "decision.create", "decision", "D-1", 1,
                  <<<<"a", "2">>>>)>>
ReadStores == {<<>>, OneEventStore}

\* Pieces an anchor file found on disk is made of, and the files themselves:
\* none, or any text of up to MaxFile pieces (key=value lines, bare hashes,
\* blank lines).
FileTokens == {GENESIS_HASH, OneEventStore[1].event_hash, "latest_hash", "=", "\n", " "}
AnchorFiles ==
    {[exists |-> FALSE, content |-> <<>>]}
        \cup {[exists |-> TRUE, content |-> c] :
                 c \in UNION {[1..n -> FileTokens] : n \in 0..MaxFile}}

InitRead ==
    /\ ledger_events \in ReadStores
    /\ uuid_ctr = Len(ledger_events)
    /\ ret = ""
    /\ tamper = NoTamper
    /\ verify_result = NoResult
    /\ now = 1
    /\ memories_table = FALSE
    /\ memories = <<>>
    /\ anchor_file \in AnchorFiles
    /\ anchor_history = <<>>
    /\ rem = [w \in Writers |-> IdleRemember]
    /\ dp = IdlePublish
    /\ dp_runs = 0
    /\ outbox = <<>>
    /\ fin = IdleFinalize
    /\ last_cmd = [cmd |-> "", rc |-> 0]
    /\ mirror = <<>>

\* ledger.verify_anchor: verify_chain, then the anchor file is read and compared.
verify_anchor(rows, file) ==
    LET db_last == verify_chain(rows)
    IN  IF ~db_last.ok THEN db_last ELSE CompareAnchor(db_last.value, file)

\* The verify-anchor command; ret is what read_anchor_file(...).get("latest_hash")
\* handed to verify_anchor ("" when it raised or had no such entry).
VerifyAnchor ==
    /\ verify_result' = verify_anchor(ledger_events, anchor_file)
    /\ ret' = IF anchor_file.exists THEN read_anchor_file(anchor_file, "latest_hash") ELSE ""
    /\ Done("verify_anchor", IF verify_result'.ok THEN 0 ELSE 1)
    /\ UNCHANGED <<ledger_events, uuid_ctr, tamper, now, memories_table, memories,
                   file_vars, rem, dp, dp_runs, outbox, fin, mirror>>

\* finalize.read_prev_anchor, called on the file as it is.
ReadPrevAnchor ==
    /\ ret' = read_prev_anchor(anchor_file)
    /\ Done("read_prev_anchor", 0)
    /\ UNCHANGED <<ledger_events, uuid_ctr, tamper, verify_result, now, memories_table,
                   memories, file_vars, rem, dp, dp_runs, outbox, fin, mirror>>

\* demo_report.read_latest_hash, called on the file as it is.
ReadLatestHash ==
    /\ ret' = read_latest_hash(anchor_file)
    /\ Done("read_latest_hash", 0)
    /\ UNCHANGED <<ledger_events, uuid_ctr, tamper, verify_result, now, memories_table,
                   memories, file_vars, rem, dp, dp_runs, outbox, fin, mirror>>

ReadNext == VerifyAnchor \/ ReadPrevAnchor \/ ReadLatestHash

SpecRead == InitRead /\ [][ReadNext]_vars

\* The file has a line "latest_hash = ..." (blanks around the key allowed).
HasLatestHashEntry(file) ==
    \E i \in DOMAIN Lines(file.content) :
        LET l == Lines(file.content)[i]
        IN  \E j \in DOMAIN l :
               /\ l[j] = "="
               /\ Strip(SubSeq(l, 1, j - 1)) = <<"latest_hash">>
               /\ \A k \in 1..(j - 1) : l[k] # "="

\* The file is one line holding only the hash h, with or without its line end.
BareHashFile(file, h) ==
    file.exists /\ file.content \in {<<h>>, <<h, "\n">>}

\* ------------------------------------ every operation on one small store

\* ledger.append_event has been called / a response has been stored.
AppendCalled == \E i \in DOMAIN ledger_events : ledger_events[i].event_type # "memory.add"
HasResponse == \E i \in DOMAIN memories : memories[i].category = "response"

\* Mutant of InitDb: the schema script recreates table ledger_events.
InitDb_Recreates ==
    /\ last_cmd.cmd # "init"
    /\ Done("init", 0)
    /\ ledger_events' = <<>>
    /\ UNCHANGED <<uuid_ctr, ret, tamper, verify_result, now, memories_table, memories,
                   file_vars, rem, dp, dp_runs, outbox, fin, mirror>>

\* "ledger.py init" on a store that exists: every CREATE of the schema script
\* is IF NOT EXISTS, so no table and no row changes.
InitDb ==
    /\ last_cmd.cmd # "init"
    /\ Done("init", 0)
    /\ UNCHANGED <<chain_vars, now, memories_table, memories, file_vars, rem, dp, dp_runs,
                   outbox, fin, mirror>>

\* No command is in flight.
Quiescent ==
    /\ rem["w1"].pc = "idle"
    /\ dp.pc \in {"idle", "done"}
    /\ fin.pc = "idle"

\* How far the run of commands has got.
FrameStage ==
    IF dp_runs > 0 THEN "publish"
    ELSE IF last_cmd.cmd \in {"review_decision", "respond", "finalize"} \/ fin.pc # "idle"
         THEN "domain"
         ELSE "append"

\* ledger.append_event, called once.
FrameAppend ==
    /\ Quiescent
    /\ FrameStage = "append"
    /\ ~AppendCalled
    /\ AppendEvent

\* The first remember() call, which appends through ai_layer's copy of
\* append_event and creates table memories for the domain writers.
FrameRemember ==
    /\ FrameStage = "append"
    /\ \/ Quiescent /\ ~memories_table /\ RememberStart("w1")
       \/ RememberCommit("w1")
       \/ RememberFail("w1")
       \/ RememberAnchor("w1")

\* The domain writers: one review, then one response to it, final or not.
FrameDomain ==
    /\ Quiescent
    /\ FrameStage # "publish"
    /\ \/ ~HasReview(memories) /\ ReviewDecision
       \/ ~HasResponse /\ Respond
       \/ ~HasResponse /\ FinalizeDb

\* The commands are run one after the other: the appends first, then either
\* the domain writers or the publish runs; the read-only commands at any point.
FrameNext ==
    \/ FrameAppend
    \/ FrameRemember
    \/ Quiescent /\ InitDb
    \/ Quiescent /\ VerifyChain
    \/ Quiescent /\ verify_result = NoResult /\ VerifyAnchor
    \/ FrameDomain
    \/ FinalizeAnchor
    \/ Quiescent /\ FrameStage # "domain" /\ DpVerify
    \/ DpWrite
    \/ DpRecheckDb
    \/ DpRecheckFile
    \/ DpSendOk
    \/ DpSendFail

SpecFrame == Init /\ [][FrameNext]_vars

\* ----------------------------------------- the viewers of the responses

\* Reasons respond.py and finalize.py are run with: any text.
StatusReasons == {"ok", "FINAL: no"}

\* The review rows a response text may quote.
ReviewRows(rows) == {rows[i] : i \in {j \in DOMAIN rows : rows[j].category = "review"}}

\* "FINAL:" in text, for a response text: finalize's marker, or a reason that
\* holds these characters (the review texts here hold none).
HoldsFinalColon(rows, text) ==
    \E a \in ValidActions, review \in ReviewRows(rows), reason \in StatusReasons :
        \/ text = FinalResponseText(a, review, reason)
        \/ text = ResponseText(a, review, reason) /\ reason = "FINAL: no"

\* "FINAL: yes" in text: finalize's marker (no reason here holds it).
HoldsFinalYes(rows, text) ==
    \E a \in ValidActions, review \in ReviewRows(rows), reason \in StatusReasons :
        text = FinalResponseText(a, review, reason)

\* text LIKE '%ReviewAt: <review_at>%', for a response text.
HoldsReviewAt(rows, text, review_at) ==
    \E a \in ValidActions, review \in ReviewRows(rows), reason \in StatusReasons :
        /\ review.created_at = review_at
        /\ text \in {ResponseText(a, review, reason), FinalResponseText(a, review, reason)}

\* SELECT created_at, text FROM memories WHERE category='response'
\* AND text LIKE ? ORDER BY created_at ASC
ResponsesTo(rows, review_at) ==
    OrderByCreatedAt(SelectSeq(rows, LAMBDA r : r.category = "response"
                                         /\ HoldsReviewAt(rows, r.text, review_at)))

\* Position of the first / last of these positions, 0 for None.
FirstOf(hits) == IF hits = {} THEN 0 ELSE CHOOSE i \in hits : \A k \in hits : i <= k
LastOf(hits) == IF hits = {} THEN 0 ELSE CHOOSE i \in hits : \A k \in hits : k <= i

\* The responses printed with the FINAL marker: those whose created_at is that
\* of the selected one.
MarkedFinal(responses, final) ==
    IF final = 0 THEN {}
    ELSE {i \in DOMAIN responses : responses[i].created_at = responses[final].created_at}

OfficialFinal == "Official status is FINAL."
NoFinalYet == "No FINAL response yet. Latest response shown as current behavior."
NoReviewFound == "No review found."
NoResponsesYet == "(no responses yet)"

\* What status.py prints: the responses to the latest review, which of them it
\* selected as FINAL and which carry the marker, and its closing line.
status(rows) ==
    IF ~HasReview(rows)
    THEN [responses |-> <<>>, final |-> 0, marked |-> {}, message |-> NoReviewFound]
    ELSE LET responses == ResponsesTo(rows, LatestReview(rows).created_at)
             final     == FirstOf({i \in DOMAIN responses :
                                        HoldsFinalColon(rows, responses[i].text)})
         IN  [responses |-> responses, final |-> final,
              marked    |-> MarkedFinal(responses, final),
              message   |-> IF responses = <<>> THEN NoResponsesYet
                            ELSE IF final # 0 THEN OfficialFinal ELSE NoFinalYet]

FinalRecorded == "FINAL decision recorded."
NoFinalDecision == "No FINAL decision yet."

\* What demo_report.py prints of the responses.
demo_report(rows) ==
    IF ~HasReview(rows)
    THEN [responses |-> <<>>, final |-> 0, marked |-> {}, message |-> NoReviewFound]
    ELSE LET responses == ResponsesTo(rows, LatestReview(rows).created_at)
             final     == LastOf({i \in DOMAIN responses :
                                       HoldsFinalYes(rows, responses[i].text)})
         IN  [responses |-> responses, final |-> final,
              marked    |-> MarkedFinal(responses, final),
              message   |-> IF final # 0 THEN FinalRecorded ELSE NoFinalDecision]

\* status.py, run while no writer is in a transaction: ret takes its closing
\* line.  Without table memories its first SELECT fails.
Status ==
    /\ IF memories_table
       THEN Done("status", 0) /\ ret' = status(memories).message
       ELSE Done("status", 1) /\ ret' = ""
    /\ UNCHANGED <<ledger_events, uuid_ctr, tamper, verify_result, now, memories_table,
                   memories, file_vars, rem, dp, dp_runs, outbox, fin, mirror>>

\* demo_report.py, likewise.
DemoReport ==
    /\ IF memories_table
       THEN Done("demo_report", 0) /\ ret' = demo_report(memories).message
       ELSE Done("demo_report", 1) /\ ret' = ""
    /\ UNCHANGED <<ledger_events, uuid_ctr, tamper, verify_result, now, memories_table,
                   memories, file_vars, rem, dp, dp_runs, outbox, fin, mirror>>

\* respond.py and finalize.py with any reason.
StatusRespond == \E arg \in ActionArgs, reason \in StatusReasons : RespondWith(arg, reason)
StatusFinalizeDb ==
    \E arg \in ActionArgs, reason \in StatusReasons : FinalizeDbWith(arg, reason)

\* The first remember() call creates table memories; then reviews, responses
\* and finalize runs in any order, the viewers between them.
StatusNext ==
    \/ ~memories_table /\ RememberStart("w1")
    \/ RememberCommit("w1")
    \/ RememberFail("w1")
    \/ RememberAnchor("w1")
    \/ ReviewDecision
    \/ StatusRespond
    \/ StatusFinalizeDb
    \/ FinalizeAnchor
    \/ Status
    \/ DemoReport

SpecStatus == Init /\ [][StatusNext]_vars

\* The lines of the anchor history that daily_publish wrote.
PublishLines ==
    SelectSeq(Lines(anchor_history), LAMBDA l : Len(l) >= 5 /\ l[5] = "DAILY_ANCHOR")

\* The scan order of the rows is what it was before the edit.
OrderKept == ScanOrder(ledger_events) = tamper.pre_order

\* ---------------------------------------------------------------- claims

\* C1 (as stated): after N >= 1 committed append_event calls by a single writer,
\* with any caller-supplied created_at, verify_chain raises nothing and returns
\* the hash the last append returned.
C1_VerifyReturnsLastAppended ==
    (tamper.kind = "none" /\ Len(ledger_events) >= 1 /\ verify_result # NoResult)
        => verify_result = Ok(ret)

\* C2 (as stated): changing one stored field other than prev_hash of one event
\* makes the next verify_chain fail with the tamper error at that event's index.
C2_AnyFieldChangeIsTamperAtIndex ==
    (tamper.kind = "field" /\ tamper.field # "prev_hash" /\ verify_result # NoResult)
        => verify_result = Err(TamperDetected, tamper.idx)

\* C2 (amended): changing one hashed field (created_at, event_type, entity_type,
\* entity_id, payload) or the event_hash of one event, without changing the scan
\* order, makes the next verify_chain fail at or before that event's index, and
\* with the tamper error at exactly that index when the chain verified before
\* the change; a change of event_id alone is not detected.
C2_HashedFieldChangeIsTamperAtIndex ==
    (tamper.kind = "field" /\ verify_result # NoResult) =>
        /\ (tamper.field \in HashedColumns \cup {"event_hash"} /\ OrderKept) =>
              /\ ~verify_result.ok
              /\ verify_result.idx <= tamper.idx
              /\ tamper.pre.ok => verify_result = Err(TamperDetected, tamper.idx)
        /\ tamper.field = "event_id" => verify_result = tamper.pre

C2_Witness ==
    /\ tamper.kind = "field" /\ tamper.field = "payload_json"
    /\ tamper.pre.ok /\ tamper.idx = 2 /\ tamper.last = 3
    /\ verify_result = Err(TamperDetected, 2)

\* C3 (as stated): changing the stored prev_hash of one event to a different value
\* makes the next verify_chain fail with the broken-link error, not the tamper
\* error.
C3_PrevHashChangeIsBrokenLink ==
    (tamper.kind = "field" /\ tamper.field = "prev_hash" /\ verify_result # NoResult)
        => (~verify_result.ok /\ verify_result.error = ChainBroken)

\* C4 (as stated): in a chain of at least two events, removing any one event or
\* exchanging the created_at order of two events makes the next verify_chain
\* fail with the broken-link error.
C4_DeleteOrReorderIsBrokenLink ==
    (tamper.kind \in {"delete", "swap"} /\ tamper.last >= 2
        /\ verify_result # NoResult)
        => (~verify_result.ok /\ verify_result.error = ChainBroken)

\* C4 (amended): in a chain of at least two events that verify_chain accepts,
\* removing any event but the last in created_at order, or exchanging the
\* created_at of two events, makes the next verify_chain fail with the
\* broken-link error; removing the last event is not detected: verify_chain
\* returns the hash of the event before it.
C4_DeleteButLastOrReorderIsBrokenLink ==
    (tamper.kind \in {"delete", "swap"} /\ tamper.last >= 2 /\ tamper.pre.ok
        /\ verify_result # NoResult) =>
        IF tamper.kind = "delete" /\ tamper.idx = tamper.last
        THEN verify_result = Ok(get_last_event_hash(ledger_events))
        ELSE ~verify_result.ok /\ verify_result.error = ChainBroken

C4_Witness ==
    /\ tamper.kind = "delete" /\ tamper.last = 3 /\ tamper.idx = 2 /\ tamper.pre.ok
    /\ verify_result = Err(ChainBroken, 2)

\* C5: verify_chain on a store that holds no events returns GENESIS and raises
\* nothing (ledger.verify_chain as run by the command, and ai_layer's copy).
C5_EmptyStoreVerifiesToGenesis ==
    ledger_events = <<>> =>
        /\ verify_result # NoResult => verify_result = Ok(GENESIS_HASH)
        /\ ai_verify_chain(ledger_events) = Ok(GENESIS_HASH)

C5_Witness ==
    ledger_events = <<>> /\ verify_result = Ok(GENESIS_HASH)

\* C6: daily_publish touches no anchor state when the chain is broken: when the
\* initial verify_chain fails, the run ends there with the chain error, the
\* anchor file and the anchor history are as before, and nothing is sent.
C6_BrokenChainPublishTouchesNothing ==
    [][(dp_runs' = dp_runs + 1 /\ ~verify_chain(ledger_events).ok) =>
          /\ anchor_file' = anchor_file
          /\ anchor_history' = anchor_history
          /\ outbox' = outbox
          /\ dp'.pc = "done" /\ ~dp'.sent
          /\ dp'.error \in {ChainBroken, TamperDetected}]_vars

C6_Witness ==
    /\ dp.pc = "done" /\ dp.error = ChainBroken /\ ~dp.sent
    /\ Len(ledger_events) = 2
    /\ ~anchor_file.exists /\ anchor_history = <<>> /\ outbox = <<>>

\* C7 (as stated): in any state where verify_chain would fail, no operation adds
\* a ledger event or writes the anchor file or the anchor history.
C7_NoWriteOnUnverifiableChain ==
    [][~verify_chain(ledger_events).ok =>
          /\ ledger_events' = ledger_events
          /\ anchor_file' = anchor_file
          /\ anchor_history' = anchor_history]_vars

\* C8 (as stated): in every committed state each row of table memories has
\* exactly one matching ledger event, and each ledger event has its row.
C8_MemoryRowsHaveTheirEvent ==
    /\ \A i \in DOMAIN memories :
          Cardinality({j \in DOMAIN ledger_events :
                          /\ ledger_events[j].entity_type = "memory"
                          /\ ledger_events[j].entity_id = memories[i].memory_id}) = 1
    /\ \A j \in DOMAIN ledger_events :
          \E i \in DOMAIN memories :
              memories[i].memory_id = ledger_events[j].entity_id

\* A text holds a given piece as a contiguous part.
Holds(text, piece) ==
    \E i \in 0..(Len(text) - Len(piece)) : SubSeq(text, i + 1, i + Len(piece)) = piece

\* C9: a transmission failure does not undo local anchoring: the step in which
\* send_email fails leaves the anchor file, the anchor history and the ledger
\* events as they are and ends the run with the error; afterwards the history
\* still holds the line of this run, and the anchor file still exists.
C9_TransmissionFailureKeepsAnchors ==
    /\ [][(dp.pc = "send" /\ dp'.pc = "done" /\ ~dp'.sent) =>
             /\ anchor_file' = anchor_file
             /\ anchor_history' = anchor_history
             /\ ledger_events' = ledger_events
             /\ outbox' = outbox
             /\ dp'.error \in {SmtpMissingEnv, SmtpFailure}]_vars
    /\ []((dp.pc = "done" /\ dp.error \in {SmtpMissingEnv, SmtpFailure}) =>
             /\ anchor_file.exists
             /\ read_anchor_file(anchor_file, "latest_hash") # ""
             /\ Holds(anchor_history, HistoryLine(dp.last_hash, dp.note, dp.ts)))

C9_Witness ==
    /\ dp.pc = "done" /\ dp.error = SmtpFailure
    /\ Len(ledger_events) >= 1
    /\ anchor_file = [exists |-> TRUE,
                      content |-> AnchorFileText(dp.last_hash, dp.note, dp.ts)]
    /\ read_anchor_file(anchor_file, "latest_hash") = get_last_event_hash(ledger_events)
    /\ outbox = <<>>

\* C10: when the latest_hash re-read from the anchor file differs from the tip
\* verify_anchor got from the store, daily_publish ends with the anchor-mismatch
\* error, sends nothing and changes no ledger event.
C10_AnchorMismatchBlocksPublish ==
    /\ [][(dp.pc = "recheck_file" /\ dp'.pc # "recheck_file"
             /\ read_anchor_file(anchor_file, "latest_hash") \notin {"", dp.db_last}) =>
             /\ dp'.pc = "done" /\ dp'.error = AnchorMismatch /\ ~dp'.sent
             /\ outbox' = outbox
             /\ ledger_events' = ledger_events]_vars
    /\ [][(dp.error = AnchorMismatch /\ dp'.error = AnchorMismatch) =>
             outbox' = outbox]_vars

C10_Witness ==
    /\ dp.pc = "done" /\ dp.error = AnchorMismatch /\ ~dp.sent
    /\ outbox = <<>>
    /\ read_anchor_file(anchor_file, "latest_hash") # get_last_event_hash(ledger_events)

\* C11 (as stated): whenever daily_publish hands a mail to send_email, the chain
\* was verified in this run, the anchor file and one history line were written
\* in this run, the re-check succeeded, and the latest_hash of the mail equals
\* both the tip the first verify returned and the latest_hash re-read from the
\* anchor file (which the re-check found equal to dp.db_last).
C11_TransmissionIsGated ==
    [][(dp.pc = "send" /\ outbox' # outbox) =>
          /\ dp.last_hash # "" /\ dp.error = ""
          /\ Holds(anchor_history, HistoryLine(dp.last_hash, dp.note, dp.ts))
          /\ dp.db_last # ""
          /\ outbox'[Len(outbox')].body.latest_hash = dp.last_hash
          /\ dp.last_hash = dp.db_last]_vars

\* C12: publishing again with no append in between is safe: every run passes
\* verification and the re-check, each run adds exactly one line to the anchor
\* history (two runs, two lines), the hash field of every such line is the tip,
\* the anchor file's latest_hash is that tip after each run, and the ledger
\* events do not change.
C12_RepublishIsSafe ==
    /\ [](dp_runs >= 1 =>
            /\ dp.error \in {"", SmtpMissingEnv, SmtpFailure}
            /\ Len(PublishLines) = dp_runs - (IF dp.pc = "write" THEN 1 ELSE 0)
            /\ \A i \in DOMAIN PublishLines :
                  PublishLines[i][3] = get_last_event_hash(ledger_events)
            /\ (dp.pc # "write" \/ dp_runs >= 2) =>
                  read_anchor_file(anchor_file, "latest_hash")
                     = get_last_event_hash(ledger_events))
    /\ [][dp_runs >= 1 => ledger_events' = ledger_events]_vars

C12_Witness ==
    /\ dp_runs = 2 /\ dp.pc = "done" /\ dp.sent
    /\ Len(ledger_events) = 2
    /\ Len(PublishLines) = 2
    /\ PublishLines[1][3] = PublishLines[2][3]
    /\ PublishLines[2][3] = ledger_events[2].event_hash
    /\ read_anchor_file(anchor_file, "latest_hash") = ledger_events[2].event_hash

\* C13 (as stated): for any hash h, any free-text note and any timestamp,
\* write_anchor_files(latest_hash=h, note, created_at) followed by
\* read_anchor_file returns a record whose latest_hash is h.
C13_AnchorRoundTrip ==
    last_cmd.cmd = "read_anchor_file" => ret = last_cmd.latest_hash

\* C14 (as stated): the anchor history is append-only under every operation and
\* interleaving of remember and finalize runs: every step leaves the text that
\* was in the history in place and at most adds to its end.
C14_HistoryIsAppendOnly ==
    [][/\ Len(anchor_history) <= Len(anchor_history')
       /\ SubSeq(anchor_history', 1, Len(anchor_history)) = anchor_history]_vars

\* C15: two overlapping appends that both read the same tip before either
\* commits leave a chain the verifier rejects: after both have committed,
\* verify_chain fails with the broken-link error and returns no tip.
C15_OverlappingAppendsBreakTheChain ==
    BothCommittedOnOneTip =>
        /\ ~verify_chain(ledger_events).ok
        /\ verify_chain(ledger_events).error = ChainBroken
        /\ verify_result # NoResult => verify_result = verify_chain(ledger_events)

C15_Witness ==
    /\ BothCommittedOnOneTip
    /\ Len(ledger_events) = 3
    /\ ledger_events[2].prev_hash = ledger_events[1].event_hash
    /\ ledger_events[3].prev_hash = ledger_events[1].event_hash
    /\ ledger_events[1].created_at < ledger_events[2].created_at
    /\ ledger_events[2].created_at <= ledger_events[3].created_at
    /\ verify_result = Err(ChainBroken, 3)

\* C16: event_hash stays unique in the store: no two stored events have the
\* same event_hash, and an append whose computed event_hash is already stored
\* fails and leaves the ledger events and the domain records as they were.
C16_DuplicateHashIsRejected ==
    /\ [](\A i, j \in DOMAIN ledger_events :
             i # j => ledger_events[i].event_hash # ledger_events[j].event_hash)
    /\ [][\A w \in Writers :
             (/\ rem[w].pc = "insert" /\ rem'[w].pc # "insert"
              /\ \E i \in DOMAIN ledger_events :
                    ledger_events[i].event_hash = PendingHash(w))
             => /\ rem'[w].pc = "failed"
                /\ ledger_events' = ledger_events
                /\ memories' = memories]_vars

C16_Witness ==
    \E w \in Writers :
        /\ rem[w].pc = "failed"
        /\ Len(ledger_events) = 2
        /\ \E i \in DOMAIN ledger_events : ledger_events[i].event_hash = PendingHash(w)

C18_AppendReturnsNewTip ==
    (tamper.kind = "none" /\ Len(ledger_events) >= 1) =>
        get_last_event_hash(ledger_events) = ret

\* The tip of a store, spelled out: the event_hash of the row with the largest
\* created_at, the one inserted last among those; GENESIS on an empty store.
TipOf(rows) ==
    IF rows = <<>> THEN "GENESIS"
    ELSE LET latest == {i \in DOMAIN rows :
                           \A j \in DOMAIN rows : rows[j].created_at <= rows[i].created_at}
             last   == CHOOSE i \in latest : \A j \in latest : j <= i
         IN  rows[last].event_hash

\* C19: every event written by append_event satisfies the hash invariant: its
\* prev_hash is the tip that existed when the append started (GENESIS on an
\* empty store), its payload_json is the canonical text of the payload, and
\* its event_hash is the hash of prev_hash, created_at, event_type,
\* entity_type, entity_id and payload_json joined by "|" in that order; that
\* hash is what append_event returns.
C19_AppendedEventSatisfiesHashInvariant ==
    [][(tamper' = tamper /\ Len(ledger_events') = Len(ledger_events) + 1) =>
          LET e == ledger_events'[Len(ledger_events')]
          IN  /\ SubSeq(ledger_events', 1, Len(ledger_events)) = ledger_events
              /\ e.prev_hash = TipOf(ledger_events)
              /\ e.payload_json \in {"{\"a\":\"2\",\"b\":\"1\"}", "{\"a\":\"2\"}"}
              /\ e.event_hash =
                    sha256_hex(e.prev_hash \o "|" \o iso(e.created_at) \o "|"
                               \o e.event_type \o "|" \o e.entity_type \o "|"
                               \o e.entity_id \o "|" \o e.payload_json)
              /\ ret' = e.event_hash]_vars

C19_Witness ==
    /\ tamper.kind = "none"
    /\ Len(ledger_events) = 2
    /\ ledger_events[2].prev_hash = ledger_events[1].event_hash
    /\ ledger_events[2].event_hash =
          "sha256(" \o ledger_events[1].event_hash
             \o "|T2|decision.create|decision|D-1|{\"a\":\"2\",\"b\":\"1\"})"
    /\ ret = ledger_events[2].event_hash

\* C20: two independent stores that receive the same sequence of (created_at,
\* event_type, entity_type, entity_id, payload) inputs, the payloads equal as
\* key/value maps whatever the insertion order of their keys, hold the same
\* prev_hash and event_hash sequences, while their event_id values differ.
C20_StoresAgreeOnHashes ==
    /\ Len(mirror) = Len(ledger_events)
    /\ \A i \in DOMAIN ledger_events :
          /\ mirror[i].prev_hash = ledger_events[i].prev_hash
          /\ mirror[i].event_hash = ledger_events[i].event_hash
          /\ mirror[i].event_id # ledger_events[i].event_id

C20_Witness ==
    /\ Len(ledger_events) = 3 /\ Len(mirror) = 3
    /\ \A i \in 1..3 : ledger_events[i].event_type = "decision.create"
    /\ mirror[3].event_hash = ledger_events[3].event_hash
    /\ mirror[3].prev_hash = ledger_events[2].event_hash
    /\ mirror[3].event_id # ledger_events[3].event_id

\* C21: verify_anchor fails with "Anchor file not found" when the anchor file is
\* absent and with "Anchor file missing latest_hash" when the file exists but has
\* no latest_hash entry; in neither case does the read hand a hash to its caller.
C21_UnreadableAnchorIsAnError ==
    (last_cmd.cmd = "verify_anchor" /\ verify_chain(ledger_events).ok) =>
        /\ ~anchor_file.exists =>
              (verify_result = Err(AnchorNotFound, 0) /\ ret = "")
        /\ (anchor_file.exists /\ ~HasLatestHashEntry(anchor_file)) =>
              (verify_result = Err(AnchorMissingHash, 0) /\ ret = "")

C21_Witness ==
    /\ last_cmd.cmd = "verify_anchor"
    /\ ledger_events = <<>>
    /\ anchor_file = [exists |-> TRUE, content |-> <<"latest_hash", "\n", GENESIS_HASH>>]
    /\ verify_result = Err(AnchorMissingHash, 0)

\* C22 (as stated): when the anchor file is a single line holding only a hash h,
\* every anchor reader (ledger.read_anchor_file as used by verify_anchor,
\* finalize.read_prev_anchor, demo_report.read_latest_hash) yields h.
C22_EveryReaderTakesTheBareHash ==
    \A h \in {GENESIS_HASH, OneEventStore[1].event_hash} :
        (BareHashFile(anchor_file, h)
            /\ last_cmd.cmd \in {"verify_anchor", "read_prev_anchor", "read_latest_hash"})
            => ret = h

\* C23 (as stated): the anchor is a pointer to the chain tip: when an
\* anchor-writing operation (here remember and finalize, no other operation in
\* flight) completes, the anchor file's latest_hash is the store's tip and
\* verify_anchor succeeds.
C23_AnchorWritersLeaveTheTip ==
    [][((RememberAnchor("w1") /\ fin.pc = "idle")
            \/ (FinalizeWriteAnchor /\ rem["w1"].pc = "idle"))
        => verify_anchor(ledger_events', anchor_file').ok]_vars

\* C24: ledger events are append-only: a committed append_event (ledger's, or
\* ai_layer's copy inside remember) adds exactly one record behind the existing
\* ones and leaves those unchanged, and every other
\* operation (verify_chain, verify_anchor, daily_publish, init_db on an existing
\* store, finalize, respond, review_decision) leaves the ledger events as they
\* are.
C24_EventsAreAppendOnly ==
    [][/\ (FrameAppend \/ RememberCommit("w1")) =>
             /\ Len(ledger_events') = Len(ledger_events) + 1
             /\ SubSeq(ledger_events', 1, Len(ledger_events)) = ledger_events
       /\ ~(FrameAppend \/ RememberCommit("w1")) => ledger_events' = ledger_events]_vars

C24_Witness ==
    /\ Len(ledger_events) = 2
    /\ last_cmd = [cmd |-> "finalize", rc |-> 0]
    /\ HasResponse

\* C25 (as stated): the publish label influences no hash: of two daily_publish
\* runs on the same store, under whatever labels, the second writes the
\* latest_hash to the anchor file that the first wrote, the hash fields of
\* their two history lines are equal, a mail of the second carries the hash a
\* mail of the first carried, and the ledger events stay as they are.
C25_LabelInfluencesNoHash ==
    [][dp_runs = 2 =>
         /\ DpWrite =>
              /\ read_anchor_file(anchor_file', "latest_hash")
                    = read_anchor_file(anchor_file, "latest_hash")
              /\ PublishLines' # <<>>
              /\ \A i \in DOMAIN PublishLines' : PublishLines'[i][3] = PublishLines'[1][3]
         /\ DpSendOk =>
              \A i \in DOMAIN outbox' :
                 outbox'[i].body.latest_hash = outbox'[1].body.latest_hash
         /\ ledger_events' = ledger_events]_vars

\* C26 (as stated): a verify_chain that overlaps one append committed onto an
\* intact chain raises nothing and returns the tip before that append or the
\* tip after it.  verify_chain reads the store in one SELECT, so it sees the
\* rows either without or with the appended one; this is the run that sees
\* them with it.
C26_OverlappingVerifySeesATip ==
    [][LET before == SubSeq(ledger_events, 1, Len(ledger_events) - 1)
       IN  (/\ VerifyChain
            /\ tamper.kind = "none"
            /\ Len(ledger_events) >= 1
            /\ verify_chain(before).ok)
           => /\ verify_result'.ok
              /\ verify_result'.value \in {get_last_event_hash(before),
                                           get_last_event_hash(ledger_events), ret}]_vars

\* The ways a daily_publish run has ended, given its final record.  The anchor
\* mismatch ending is the one in which verify_anchor raised on the anchor file:
\* its hash differs from the tip, or the reader finds no latest_hash in it.
Endings(r) ==
    {k \in {"success", "chain error", "anchor mismatch", "transmission error"} :
        \/ k = "success" /\ r.sent /\ r.error = ""
        \/ k = "chain error" /\ ~r.sent /\ r.error \in {ChainBroken, TamperDetected}
        \/ k = "anchor mismatch" /\ ~r.sent
              /\ r.error \in {AnchorMismatch, AnchorMissingHash, AnchorNotFound}
        \/ k = "transmission error" /\ ~r.sent /\ r.error \in {SmtpMissingEnv, SmtpFailure}}

\* C27: transmission fails closed: every daily_publish run that has started
\* eventually ends; it ends in exactly one of success, chain error, anchor
\* mismatch and transmission error; a run counts as success only when its mail
\* went out; and a transmission that cannot be delivered ends the run with the
\* transmission error, nothing sent.
C27_PublishFailsClosed ==
    /\ (dp.pc \notin {"idle", "done"}) ~> (dp.pc = "done")
    /\ [](dp.pc = "done" => Cardinality(Endings(dp)) = 1)
    /\ []((dp.pc = "done" /\ dp.sent) =>
            \E i \in DOMAIN outbox :
               /\ outbox[i].body.latest_hash = dp.last_hash
               /\ outbox[i].body.timestamp = iso(dp.ts))
    /\ [][DpSendFail =>
            /\ dp'.pc = "done" /\ ~dp'.sent /\ outbox' = outbox
            /\ Endings(dp') = {"transmission error"}]_vars

C27_Witness ==
    /\ dp.pc = "done" /\ dp.error = SmtpMissingEnv /\ ~dp.sent
    /\ dp_runs = 1
    /\ Len(ledger_events) = 2
    /\ anchor_file.exists
    /\ outbox = <<>>

\* Event i of the scan has a prev_hash that is not the event_hash of the event
\* scanned before it (GENESIS for the first) / an event_hash that is not the
\* hash of its material.
LinkWrong(events, i) ==
    events[i].prev_hash # (IF i = 1 THEN GENESIS_HASH ELSE events[i - 1].event_hash)
HashWrong(events, i) ==
    events[i].event_hash
        # sha256_hex(material(events[i].prev_hash, events[i].created_at,
                              events[i].event_type, events[i].entity_type,
                              events[i].entity_id, events[i].payload_json))

\* C28: verify_chain reports the first violation in scan order: it fails at the
\* smallest 1-based index, in created_at order, whose event has a wrong
\* prev_hash or a wrong event_hash, with the broken-link error when the link of
\* that event is wrong (whatever its hash) and the tamper error otherwise; the
\* two errors differ and carry that index; with no such event it succeeds.
C28_FirstViolationIsReported ==
    verify_result # NoResult =>
        LET events == OrderByCreatedAt(ledger_events)
            bad    == {i \in DOMAIN events : LinkWrong(events, i) \/ HashWrong(events, i)}
        IN  /\ ChainBroken # TamperDetected
            /\ bad = {} => verify_result.ok
            /\ bad # {} =>
                 LET i == CHOOSE j \in bad : \A k \in bad : j <= k
                 IN  verify_result =
                        Err(IF LinkWrong(events, i) THEN ChainBroken ELSE TamperDetected, i)

C28_Witness ==
    /\ tamper.kind = "field" /\ tamper.field = "prev_hash" /\ tamper.idx = 2
    /\ Len(ledger_events) = 3
    /\ HashWrong(OrderByCreatedAt(ledger_events), 2)
    /\ LinkWrong(OrderByCreatedAt(ledger_events), 3)
    /\ verify_result = Err(ChainBroken, 2)

\* C29 (as stated): every line of the anchor history has the shape
\* "<timestamp> | <hash> | <note>", the hash being its second " | "-separated
\* field, and each completed anchoring adds exactly one such line; here for the
\* lines that remember and finalize write: the step that writes the history adds
\* one line, whose second field is the hash that operation anchors.
C29_HistoryLineHasHashSecond ==
    [][anchor_history' # anchor_history =>
         LET lines == Lines(anchor_history')
             l     == lines[Len(lines)]
         IN  /\ Len(lines) = Len(Lines(anchor_history)) + 1
             /\ Len(l) >= 5
             /\ l[2] = " | " /\ l[4] = " | "
             /\ l[3] \in {rem["w1"].latest_hash, fin.new_hash} \ {""}]_vars

\* C30 (as stated): after two remember calls, overlapping in any way, have both
\* completed on an initially intact store, the anchor file's latest_hash is the
\* store's tip and the anchor history holds one line for each of the two events.
C30_OverlappingRemembersAnchorTheTip ==
    (/\ \A w \in Writers : rem[w].pc = "idle"
     /\ Len(ledger_events) = 2
     /\ dp_runs = 0)
        => /\ read_anchor_file(anchor_file, "latest_hash") = get_last_event_hash(ledger_events)
           /\ Len(Lines(anchor_history)) = 2
           /\ \A i \in DOMAIN ledger_events :
                 \E j \in DOMAIN Lines(anchor_history) :
                    Lines(anchor_history)[j][3] = ledger_events[i].event_hash

\* C31: the hash material encodes the event without ambiguity, also when a
\* field holds "|": once entity_type and entity_id of a stored event of a
\* chain that verified have been changed in one edit, verify_chain reports an
\* error.
C31_FieldSpanningChangeIsDetected ==
    (tamper.kind = "fields" /\ tamper.pre.ok /\ verify_result # NoResult)
        => ~verify_result.ok

\* A response row that finalize saved for this review.
FinalResponsesFor(review) ==
    {i \in DOMAIN memories :
        /\ memories[i].category = "response"
        /\ \E a \in ValidActions, reason \in ReasonArgs :
              memories[i].text = FinalResponseText(a, review, reason)}

\* The history lines that anchor a FINAL record of the review created at review_at.
FinalLinesFor(review_at) ==
    {j \in DOMAIN Lines(anchor_history) :
        LET l == Lines(anchor_history)[j]
        IN  /\ Len(l) >= 8
            /\ l[3] = "FINAL"
            /\ l[7] = "ReviewAt: " /\ l[8] = iso(review_at)}

\* C32 (as stated): finalize records one official decision per review: whatever
\* finalize and respond runs were made against the most recent review, at most
\* one response marked FINAL exists for it and at most one FINAL record of it is
\* anchored in the history.
C32_OneFinalPerReview ==
    (memories_table /\ HasReview(memories)) =>
        /\ Cardinality(FinalResponsesFor(LatestReview(memories))) <= 1
        /\ Cardinality(FinalLinesFor(LatestReview(memories).created_at)) <= 1

\* The hash the anchor file names: GENESIS when the file is absent or blank,
\* the value of its latest_hash entry, or else its first line.
PrevAnchorOf(file) ==
    IF ~file.exists \/ StripWs(file.content) = <<>> THEN "GENESIS"
    ELSE IF HasLatestHashEntry(file) THEN read_anchor_file(file, "latest_hash")
    ELSE JoinStr("", Strip(Lines(StripWs(file.content))[1]))

\* The text a step added at the end of the history, <<>> when it did not only add.
AddedHistory ==
    IF /\ Len(anchor_history') >= Len(anchor_history)
       /\ SubSeq(anchor_history', 1, Len(anchor_history)) = anchor_history
    THEN SubSeq(anchor_history', Len(anchor_history) + 1, Len(anchor_history'))
    ELSE <<>>

\* C33 (as stated): finalize chains its anchors: each run computes new_hash as
\* the hash of the previous anchor hash, a newline and the record line, the
\* previous anchor hash being what the anchor file names at that moment; it
\* then appends one line carrying new_hash to the history and overwrites the
\* anchor file with latest_hash = new_hash.
C33_FinalizeChainsItsAnchors ==
    [][/\ FinalizeReadAnchor =>
            fin'.new_hash = sha256_hex(PrevAnchorOf(anchor_file) \o "\n"
                                          \o JoinStr("", fin'.record_line))
       /\ FinalizeWriteHistory =>
            /\ Len(Lines(AddedHistory)) = 1
            /\ Holds(AddedHistory, <<fin.new_hash>>)
       /\ FinalizeWriteAnchor =>
            /\ read_anchor_file(anchor_file', "latest_hash") = fin.new_hash
            /\ read_prev_anchor(anchor_file') = fin.new_hash]_vars

\* The input respond.py and finalize.py reject: an action that is none of
\* APPROVE, REJECT, DEFER, or a database without a review record.
BadInput(arg) ==
    \/ Upper(arg) \notin {"APPROVE", "REJECT", "DEFER"}
    \/ ~memories_table
    \/ \A i \in DOMAIN memories : memories[i].category # "review"

\* C34: finalize and respond reject bad input without side effects: a run
\* whose action is not one of APPROVE, REJECT, DEFER, or that finds no review
\* record, ends with an error and writes no response row, no history line and
\* no anchor file (and finalize does not go on to its anchoring).
C34_BadInputIsRejectedWithoutEffect ==
    [][\A arg \in ActionArgs, reason \in ReasonArgs :
          /\ (RespondWith(arg, reason) /\ BadInput(arg)) =>
                /\ last_cmd' = [cmd |-> "respond", rc |-> 1]
                /\ memories' = memories
                /\ anchor_history' = anchor_history
                /\ anchor_file' = anchor_file
          /\ (FinalizeDbWith(arg, reason) /\ BadInput(arg)) =>
                /\ last_cmd' = [cmd |-> "finalize", rc |-> 1]
                /\ memories' = memories
                /\ anchor_history' = anchor_history
                /\ anchor_file' = anchor_file
                /\ fin'.pc = "idle"]_vars

\* finalize has just refused an action that is not valid, a review being there.
C34_Witness ==
    /\ last_cmd = [cmd |-> "finalize", rc |-> 1]
    /\ memories_table /\ HasReview(memories)
    /\ ~HasResponse
    /\ fin.pc = "idle"

\* A response row that finalize recorded for this review.
RecordedByFinalize(r, review) ==
    /\ r.category = "response"
    /\ \E a \in ValidActions, reason \in StatusReasons :
          r.text = FinalResponseText(a, review, reason)

\* C35 (as stated): status shows a response as the official FINAL one only if
\* finalize recorded it for the latest review; when there is no such response
\* it reports that there is no FINAL response (or no response at all); and
\* status and demo_report select the same response as FINAL.
C35_StatusShowsWhatFinalizeRecorded ==
    [][(memories_table /\ HasReview(memories) /\ rem' = rem /\ fin' = fin /\ Status) =>
          LET out    == status(memories)
              review == LatestReview(memories)
          IN  /\ ret' = out.message
              /\ \A i \in out.marked : RecordedByFinalize(out.responses[i], review)
              /\ (\A i \in DOMAIN memories : ~RecordedByFinalize(memories[i], review)) =>
                    /\ out.final = 0
                    /\ out.message \in {NoFinalYet, NoResponsesYet}
              /\ out.final = demo_report(memories).final]_vars

====
